---- MODULE Spec2Model ----
(***************************************************************************)
(* The virtual-clock controller of react-time-travel (TimeControllerImpl), *)
(* its TimeHijacker and the environment policy, as a state machine.  Every *)
(* public operation is one action; the callbacks it runs inline are part   *)
(* of the same action.                                                     *)
(***************************************************************************)
EXTENDS Integers, Sequences, FiniteSets, TLC

VARIABLES
  constructed,   \* a TimeControllerImpl has been constructed and is held by the caller
  currentTime,   \* TimeControllerImpl.currentTime (a Date value)
  enabled,       \* TimeControllerImpl.enabled
  options,       \* TimeControllerImpl.options
  subscribers,   \* TimeControllerImpl.subscribers, a Set in insertion order
  isHijacked,    \* TimeHijacker.isHijacked
  backup,        \* TimeHijacker.backup
  globalDate,    \* the binding globalThis.Date
  libs,          \* where moment and dayjs can be found in this runtime
  momentNow,     \* the binding moment.now: the wrappers around the original, innermost first
  dayjsGlobal,   \* the binding globalThis.dayjs: how many wrappers surround the original
  handles,       \* unsubscribe functions the caller holds, per callback
  captured,      \* the replacement bindings the caller has kept a reference to
  result,        \* what the last call through a time binding returned
  op,            \* the last operation called and its argument
  err,           \* what the last operation threw ("none" when it returned)
  calls,         \* subscriber invocations made during the last operation, in order
  changeCalls,   \* onTimeChange invocations made during the last operation, in order
  globalController, \* the module's globalController: null, or which controller it holds
  created,       \* how many controllers the module functions have constructed
  held,          \* the Dates the caller holds: one it passed to setTime, one getCurrentTime returned
  other          \* a second TimeControllerImpl the caller holds, with its own TimeHijacker

vars == <<constructed, currentTime, enabled, options, subscribers, isHijacked, backup,
          globalDate, libs, momentNow, dayjsGlobal, handles, captured, result, op, err, calls,
          changeCalls, globalController, created, held, other>>

-----------------------------------------------------------------------------
(* Bounds of the model *)

\* the largest time value a Date holds (stands for 8.64e15 ms)
MaxDate == 86400000
\* how many never-invoked unsubscribe functions of one callback the caller keeps
MaxHandles == 2
\* how many wrappers the model lets pile up around moment.now
MaxWraps == 2
\* how many controllers the module functions construct
MaxControllers == 3

(* Program constants *)
MsPerMinute == 60 * 1000
MsPerHour == 60 * 60 * 1000
MsPerDay == 24 * 60 * 60 * 1000

-----------------------------------------------------------------------------
(* JavaScript numbers and Date values *)

\* A finite number is the fraction v / den in lowest terms; den is 1 for an integer
Fin(n) == [kind |-> "fin", v |-> n, den |-> 1]
NaN == [kind |-> "nan", v |-> 0, den |-> 1]
PosInf == [kind |-> "inf", v |-> 1, den |-> 1]
NegInf == [kind |-> "inf", v |-> -1, den |-> 1]
\* a value that is not of type number and converts to NaN (undefined, "abc")
NotANumber == [kind |-> "other", v |-> 0, den |-> 1]

Abs(n) == IF n < 0 THEN -n ELSE n

RECURSIVE Gcd(_, _)
Gcd(a, b) == IF b = 0 THEN a ELSE Gcd(b, a % b)

\* the finite number n / d, d > 0
Frac(n, d) ==
  LET g == Gcd(Abs(n), d) IN [kind |-> "fin", v |-> n \div g, den |-> d \div g]

\* -x
NumNeg(x) == IF x.kind = "fin" \/ x.kind = "inf" THEN [x EXCEPT !.v = -x.v] ELSE x

\* the integer part of a finite number, rounding towards zero
Trunc(x) == IF x.v >= 0 THEN x.v \div x.den ELSE -((-x.v) \div x.den)

IsFinite(x) == x.kind = "fin"

\* ToNumber
ToNumber(x) == IF x.kind = "other" THEN NaN ELSE x

\* x + y on numbers
NumAdd(x, y) ==
  IF x.kind = "nan" \/ y.kind = "nan" THEN NaN
  ELSE IF x.kind = "inf" /\ y.kind = "inf" THEN (IF x.v = y.v THEN x ELSE NaN)
  ELSE IF x.kind = "inf" THEN x
  ELSE IF y.kind = "inf" THEN y
  ELSE Frac(x.v * y.den + y.v * x.den, x.den * y.den)

\* x * k for a positive integer constant k
NumScale(x, k) ==
  LET n == ToNumber(x) IN IF n.kind = "fin" THEN Frac(n.v * k, n.den) ELSE n

\* A Date value: a time value in milliseconds, or Invalid Date
ValidDate(t) == [valid |-> TRUE, t |-> t]
InvalidDate == [valid |-> FALSE, t |-> 0]

\* TimeClip: the time value of new Date(number), a whole number of milliseconds
TimeClip(x) ==
  IF x.kind = "fin" /\ Trunc(x) >= -MaxDate /\ Trunc(x) <= MaxDate
    THEN ValidDate(Trunc(x)) ELSE InvalidDate

\* Date.prototype.getTime
GetTime(d) == IF d.valid THEN Fin(d.t) ELSE NaN

\* The original Date constructor with one argument: a Date, a string or a number
OriginalDate(arg) ==
  CASE arg.type = "date" -> arg.date
    [] arg.type = "string" -> (IF arg.parses THEN TimeClip(Fin(arg.t)) ELSE InvalidDate)
    [] arg.type = "number" -> TimeClip(arg.num)

DateArg(d) == [type |-> "date", date |-> d, parses |-> FALSE, t |-> 0, num |-> NaN]
StringArg(ok, t) == [type |-> "string", date |-> InvalidDate, parses |-> ok, t |-> t, num |-> NaN]
NumberArg(n) == [type |-> "number", date |-> InvalidDate, parses |-> FALSE, t |-> 0, num |-> n]

-----------------------------------------------------------------------------
(* Inputs *)

Instants == {0, MsPerMinute, MsPerDay}
\* what the wall clock reads
RealTimes == {MsPerHour}
\* what detectEnvironment() finds, and the environments a caller names
Environments == {"development", "test", "production"}
Detected == {"test", "production"}
Named == {"development", "production"}
\* p returns; t throws; u calls the unsubscribe function of p; s subscribes p
RoundCallbacks == {"p", "t", "u", "s"}
\* m sets the Date it is given to Invalid Date; r calls setTime(ReentrantTime), e calls
\* enable() and d calls disable(), each unless one of the three is inside its call already
ReentrantCallbacks == {"m", "r", "e", "d"}
Callbacks == RoundCallbacks \cup ReentrantCallbacks
Empty == "-"
\* what subscribe is called with: a callback, or a value that is not a function
SubscribeInputs == RoundCallbacks \cup {"not-a-function"}
\* the callbacks whose unsubscribe function the caller keeps
Kept == {"p"}
\* the default () => {}; f and g return
ChangeHandlers == {"default", "f", "g"}
\* what an updateOptions partial carries as onTimeChange: f or g, a handler that
\* throws, or the key with the value undefined
NewHandlers == {"f", "g", "thrower", "undefined"}
Absent == "absent"

\* what setTime is called with: Dates, strings and numbers, valid and not
TimeInputs ==
  {DateArg(ValidDate(0)), DateArg(ValidDate(MsPerDay)), DateArg(InvalidDate),
   StringArg(TRUE, MsPerMinute), StringArg(FALSE, 0),
   NumberArg(Fin(MaxDate + 1)), NumberArg(NaN), NumberArg(PosInf)}

\* the shapes the Date binding is called in, each with its argument
DateCalls ==
  { [shape |-> sh, arg |-> NumberArg(Fin(0))] : sh \in {"new Date()", "Date()", "Date.now()"} }
    \cup { [shape |-> sh, arg |-> NumberArg(Fin(MsPerMinute))] : sh \in {"new Date(x)", "Date(x)"} }
    \cup { [shape |-> "Date.parse(x)", arg |-> StringArg(TRUE, MsPerDay)] }
DayjsCalls ==
  { [shape |-> "dayjs()", arg |-> NumberArg(Fin(0))],
    [shape |-> "dayjs(x)", arg |-> NumberArg(Fin(MsPerMinute))] }
\* a call goes through the binding in place, or through a replacement kept from before
Through == {"global", "captured"}

\* what addTime is called with
Millis == {Fin(MsPerMinute), Fin(-MsPerMinute), Fin(MsPerDay), NaN, PosInf, NegInf, NotANumber}
\* what addMinutes, addHours and addDays are called with
Counts == {Fin(1), Fin(-1), NaN, PosInf, NotANumber}
\* counts of minutes that make half a millisecond
Fractions == {Frac(1, 120000), Frac(-1, 120000)}

-----------------------------------------------------------------------------
(* The state an operation works on: the controller, its hijacker, the global *)
(* bindings, and what the operation has thrown and invoked so far.           *)

World ==
  [currentTime |-> currentTime, enabled |-> enabled, options |-> options,
   subscribers |-> subscribers, isHijacked |-> isHijacked, backup |-> backup,
   globalDate |-> globalDate, momentNow |-> momentNow, dayjsGlobal |-> dayjsGlobal,
   err |-> "none", calls |-> <<>>, changeCalls |-> <<>>, arg |-> InvalidDate,
   held |-> held, given |-> "none"]

Throw(w, e) == [w EXCEPT !.err = e]

-----------------------------------------------------------------------------
(* environment.ts *)

shouldEnableTimeControlAlways(env) == TRUE

shouldEnableTimeControlNever(env) == FALSE

shouldEnableTimeControl(env) ==
  IF env = "production" THEN FALSE ELSE env = "development" \/ env = "test"

-----------------------------------------------------------------------------
(* The global Date binding as the controller's own code sees it *)

\* new Date(arg) through globalThis.Date.  ControlledDate builds its result with
\* new this.constructor.original(...): this.constructor is Date.prototype.constructor,
\* the original Date, which has no property "original", so the construction throws.
NewDate(w, arg) ==
  IF w.globalDate # "Date"
    THEN [err |-> "TypeError", val |-> InvalidDate]
    ELSE [err |-> "none", val |-> OriginalDate(arg)]

\* new Date() through globalThis.Date: the original reads the wall clock; ControlledDate
\* asks the controller, whose getCurrentTime constructs a Date through the same binding.
NewDateNow(w, now) ==
  IF w.globalDate # "Date"
    THEN [err |-> "TypeError", val |-> InvalidDate]
    ELSE [err |-> "none", val |-> ValidDate(now)]

-----------------------------------------------------------------------------
(* TimeHijacker *)

NoBackup == "null"

hijackNativeFunctionsAgain(w) ==
  [w EXCEPT !.backup = w.globalDate, !.globalDate = "ControlledDate", !.isHijacked = TRUE]

hijackNativeFunctions(w) ==
  IF w.isHijacked THEN w
  ELSE [w EXCEPT !.backup = w.globalDate, !.globalDate = "ControlledDate", !.isHijacked = TRUE]

restoreNativeFunctions(w) ==
  IF ~w.isHijacked \/ w.backup = NoBackup THEN w
  ELSE [w EXCEPT !.globalDate = w.backup, !.isHijacked = FALSE]

\* moment is looked for on globalThis, on window and through require
hijackMoment(w) ==
  IF libs.moment = Absent THEN w
  ELSE [w EXCEPT !.momentNow = Append(w.momentNow, TRUE)]

\* moment is looked for on globalThis and on window only; the wrapper carries __original
restoreMoment(w) ==
  LET n == Len(w.momentNow) IN
  IF libs.moment # "global" \/ n = 0 THEN w
  ELSE IF ~w.momentNow[n] THEN w
  ELSE LET popped == SubSeq(w.momentNow, 1, n - 1) IN
       [w EXCEPT !.momentNow =
          IF n - 1 = 0 THEN popped ELSE [popped EXCEPT ![n - 1] = FALSE]]

\* dayjs is looked for on globalThis, on window and through require; the wrapper
\* replaces globalThis.dayjs only where that binding exists
hijackDayjs(w) ==
  IF libs.dayjs = "global" THEN [w EXCEPT !.dayjsGlobal = w.dayjsGlobal + 1] ELSE w

restoreDayjs(w) ==
  IF libs.dayjs = "global" /\ w.dayjsGlobal > 0
    THEN [w EXCEPT !.dayjsGlobal = w.dayjsGlobal - 1] ELSE w

hijackLibraries(w) == hijackDayjs(hijackMoment(w))

restoreLibraries(w) == restoreDayjs(restoreMoment(w))

hijackerDestroy(w) ==
  [restoreLibraries(restoreNativeFunctions(w)) EXCEPT !.backup = NoBackup]

-----------------------------------------------------------------------------
(* TimeControllerImpl *)

\* the Date returned is a new object, never the one in this.currentTime
getCurrentTime(w) ==
  LET copy == NewDate(w, NumberArg(GetTime(w.currentTime))) IN
  [err |-> copy.err, val |-> copy.val, same |-> FALSE]

\* this.currentTime = <a Date just constructed>: no Date the caller holds is that object
Assigned(w, date) ==
  [w EXCEPT !.currentTime = date,
            !.held = [x \in DOMAIN @ |-> IF @[x] = "same" THEN "copy" ELSE @[x]]]

\* Set.prototype.delete and Set.prototype.add on the insertion-ordered entries; an
\* entry deleted while a forEach is running leaves a hole the iteration skips
SetDelete(entries, cb) ==
  [i \in 1..Len(entries) |-> IF entries[i] = cb THEN Empty ELSE entries[i]]

SetAdd(entries, cb) ==
  IF \E i \in 1..Len(entries) : entries[i] = cb THEN entries ELSE Append(entries, cb)

SetHas(entries, cb) == \E i \in 1..Len(entries) : entries[i] = cb

Compact(entries) == SelectSeq(entries, LAMBDA e : e # Empty)

\* whether the caller holds an unsubscribe function of cb
HoldsHandle(cb) == handles[cb].fresh > 0 \/ handles[cb].spent

\* the instant r sets
ReentrantTime == DateArg(ValidDate(MsPerMinute))

\* one invocation of an onTimeChange handler: the time it was given and how many
\* subscriber invocations of the operation came before it
Handled(w, h, time) == [cb |-> h, time |-> time, after |-> Len(w.calls)]

\* this.options.onTimeChange(this.getCurrentTime())
CallChangeHandler(w, h) ==
  LET now == getCurrentTime(w) IN
  IF now.err # "none" THEN Throw(w, now.err)
  ELSE CASE h = "undefined" -> Throw(w, "TypeError")
         [] h = "default" -> w
         [] h \in {"f", "g"} -> [w EXCEPT !.changeCalls = Append(w.changeCalls, Handled(w, h, now.val))]
         [] h = "thrower" ->
              Throw([w EXCEPT !.changeCalls = Append(w.changeCalls, Handled(w, h, now.val))],
                    "ChangeHandlerError")

\* What a subscriber does when invoked with the round's time object, whose value is
\* w.arg; what it leaves in w.arg is the value of that object when it returns. Here
\* r, e and d find one of them inside its call already, and return.
RunCallback(w, cb) ==
  CASE cb = "p" -> w
    [] cb = "t" -> Throw(w, "SubscriberError")
    [] cb = "u" -> (IF HoldsHandle("p")
                      THEN [w EXCEPT !.subscribers = SetDelete(w.subscribers, "p")]
                      ELSE w)
    [] cb = "s" -> [w EXCEPT !.subscribers = SetAdd(w.subscribers, "p")]
    [] cb = "m" -> [w EXCEPT !.arg = InvalidDate]
    [] cb \in {"r", "e", "d"} -> w

\* callback(currentTime) inside try/catch
InvokeUncaught(w, cb, time) ==
  RunCallback([w EXCEPT !.calls = Append(w.calls, [cb |-> cb, time |-> time]), !.arg = time],
              cb)

Invoke(w, cb, time) ==
  [RunCallback([w EXCEPT !.calls = Append(w.calls, [cb |-> cb, time |-> time]), !.arg = time],
               cb)
     EXCEPT !.err = "none"]

\* this.subscribers.forEach: walks the live entries, those added meanwhile included;
\* every callback is given the same Date object, whose value is time
\* every callback is given the same Date object, whose value is w.arg
RECURSIVE ForEach(_, _)
ForEach(w, i) ==
  IF w.err # "none" \/ i > Len(w.subscribers) THEN w
  ELSE IF w.subscribers[i] = Empty THEN ForEach(w, i + 1)
  ELSE ForEach(Invoke(w, w.subscribers[i], w.arg), i + 1)

notifySubscribers(w) ==
  LET now == getCurrentTime(w) IN
  IF now.err # "none" THEN Throw(w, now.err)
  ELSE ForEach([w EXCEPT !.arg = now.val], 1)

NotifyAllHandlerFirst(w) ==
  LET n == CallChangeHandler(w, w.options.onTimeChange) IN
  IF n.err # "none" THEN n ELSE notifySubscribers(n)

\* the tail shared by setTime and addTime, run once currentTime is assigned
NotifyAll(w) ==
  LET n == notifySubscribers(w) IN
  IF n.err # "none" THEN n ELSE CallChangeHandler(n, n.options.onTimeChange)

setTimeAssignsFirst(w, time) ==
  LET newTime == NewDate(w, time) IN
  IF newTime.err # "none" THEN Throw(w, newTime.err)
  ELSE IF ~newTime.val.valid THEN Throw([w EXCEPT !.currentTime = newTime.val], "Error")
  ELSE NotifyAll([w EXCEPT !.currentTime = newTime.val])

\* this.currentTime = time, the caller's own Date
setTimeKeepsArgument(w, time) ==
  LET newTime == NewDate(w, time) IN
  IF newTime.err # "none" THEN Throw(w, newTime.err)
  ELSE IF ~newTime.val.valid THEN Throw(w, "Error")
  ELSE NotifyAll([Assigned(w, newTime.val)
                    EXCEPT !.given = IF time.type = "date" THEN "same" ELSE "none"])

\* newTime is a Date of its own: a Date given as time is another object
setTime(w, time) ==
  LET newTime == NewDate(w, time) IN
  IF newTime.err # "none" THEN Throw(w, newTime.err)
  ELSE IF ~newTime.val.valid THEN Throw(w, "Error")
  ELSE NotifyAll([Assigned(w, newTime.val)
                    EXCEPT !.given = IF time.type = "date" THEN "copy" ELSE "none"])

addTime(w, milliseconds) ==
  IF milliseconds.kind = "other" \/ milliseconds.kind = "nan" THEN Throw(w, "Error")
  ELSE LET newTime == NewDate(w, NumberArg(NumAdd(GetTime(w.currentTime), milliseconds))) IN
       IF newTime.err # "none" THEN Throw(w, newTime.err)
       ELSE NotifyAll(Assigned(w, newTime.val))

addMinutes(w, minutes) == addTime(w, NumScale(minutes, MsPerMinute))

addHours(w, hours) == addTime(w, NumScale(hours, MsPerHour))

addDays(w, days) == addTime(w, NumScale(days, MsPerDay))

resetToRealTime(w, now) ==
  LET real == NewDateNow(w, now) IN
  IF real.err # "none" THEN Throw(w, real.err) ELSE setTime(w, DateArg(real.val))

isActive(w) == w.enabled

enable(w) ==
  IF w.enabled THEN w
  ELSE IF ~shouldEnableTimeControl(w.options.environment) THEN w
  ELSE LET on == hijackNativeFunctions([w EXCEPT !.enabled = TRUE]) IN
       notifySubscribers(IF on.options.hijackLibraries THEN hijackLibraries(on) ELSE on)

disable(w) ==
  IF ~w.enabled THEN w
  ELSE notifySubscribers(restoreLibraries(restoreNativeFunctions([w EXCEPT !.enabled = FALSE])))

-----------------------------------------------------------------------------
(* The operations as the caller calls them when r, e or d may be subscribed:    *)
(* none of the three is inside its call when the round starts, so each calls    *)
(* back into the controller, and the rounds of those calls are the ones above.  *)

RunCallbackOuter(w, cb) ==
  CASE cb = "r" -> [setTime(w, ReentrantTime) EXCEPT !.arg = w.arg, !.given = w.given]
    [] cb = "e" -> [enable(w) EXCEPT !.arg = w.arg]
    [] cb = "d" -> [disable(w) EXCEPT !.arg = w.arg]
    [] OTHER -> RunCallback(w, cb)

InvokeOuter(w, cb, time) ==
  [RunCallbackOuter([w EXCEPT !.calls = Append(w.calls, [cb |-> cb, time |-> time]),
                              !.arg = time], cb)
     EXCEPT !.err = "none"]

RECURSIVE ForEachOuter(_, _)
ForEachOuter(w, i) ==
  IF w.err # "none" \/ i > Len(w.subscribers) THEN w
  ELSE IF w.subscribers[i] = Empty THEN ForEachOuter(w, i + 1)
  ELSE ForEachOuter(InvokeOuter(w, w.subscribers[i], w.arg), i + 1)

notifySubscribersOuter(w) ==
  LET now == getCurrentTime(w) IN
  IF now.err # "none" THEN Throw(w, now.err)
  ELSE ForEachOuter([w EXCEPT !.arg = now.val], 1)

\* this.options.onTimeChange(this.getCurrentTime()), unless the round threw
ThenChangeHandler(n) ==
  IF n.err # "none" THEN n ELSE CallChangeHandler(n, n.options.onTimeChange)

setTimeOuter(w, time) ==
  LET newTime == NewDate(w, time) IN
  IF newTime.err # "none" THEN Throw(w, newTime.err)
  ELSE IF ~newTime.val.valid THEN Throw(w, "Error")
  ELSE ThenChangeHandler(notifySubscribersOuter(Assigned(w, newTime.val)))

enableOuter(w) ==
  IF w.enabled THEN w
  ELSE IF ~shouldEnableTimeControl(w.options.environment) THEN w
  ELSE LET on == hijackNativeFunctions([w EXCEPT !.enabled = TRUE]) IN
       notifySubscribersOuter(IF on.options.hijackLibraries THEN hijackLibraries(on) ELSE on)

disableOuter(w) ==
  IF ~w.enabled THEN w
  ELSE notifySubscribersOuter(
         restoreLibraries(restoreNativeFunctions([w EXCEPT !.enabled = FALSE])))

\* this.hijacker.destroy(); this.subscribers.clear(), unless disable() threw
ThenDestroy(off) ==
  IF off.err # "none" THEN off ELSE [hijackerDestroy(off) EXCEPT !.subscribers = <<>>]

destroyOuter(w) == ThenDestroy(disableOuter(w))

-----------------------------------------------------------------------------

subscribeAnything(w, callback) ==
  [w EXCEPT !.subscribers = SetAdd(w.subscribers, callback)]

subscribe(w, callback) ==
  IF callback \notin Callbacks THEN Throw(w, "Error")
  ELSE [w EXCEPT !.subscribers = SetAdd(w.subscribers, callback)]

\* the function subscribe(callback) returns
unsubscribe(w, callback) == [w EXCEPT !.subscribers = SetDelete(w.subscribers, callback)]

\* { ...this.options, ...newOptions }: every key the partial carries replaces the old value
Merge(old, partial) ==
  [enabled |-> IF "enabled" \in partial.keys THEN partial.enabled ELSE old.enabled,
   hijackLibraries |->
     IF "hijackLibraries" \in partial.keys THEN partial.hijackLibraries ELSE old.hijackLibraries,
   environment |->
     IF "environment" \in partial.keys THEN partial.environment ELSE old.environment,
   onTimeChange |->
     IF "onTimeChange" \in partial.keys THEN partial.onTimeChange ELSE old.onTimeChange]

updateOptions(w, newOptions) ==
  LET merged == [w EXCEPT !.options = Merge(w.options, newOptions)]
      libsDone ==
        IF merged.enabled /\ w.options.hijackLibraries # merged.options.hijackLibraries
          THEN (IF merged.options.hijackLibraries
                  THEN hijackLibraries(merged) ELSE restoreLibraries(merged))
          ELSE merged
  IN IF "onTimeChange" \in newOptions.keys /\ newOptions.onTimeChange # "undefined"
       THEN CallChangeHandler(libsDone, newOptions.onTimeChange)
       ELSE libsDone

destroy(w) ==
  LET off == disable(w) IN
  IF off.err # "none" THEN off
  ELSE [hijackerDestroy(off) EXCEPT !.subscribers = <<>>]

\* options.startTime || new Date(): a startTime of 0 or NaN is falsy
Falsy(arg) == arg.type = "number" /\ (arg.num = Fin(0) \/ arg.num = NaN)

\* new TimeControllerImpl(options); detected is what detectEnvironment() returns and
\* now what the wall clock reads
construct(w, o, detected, now) ==
  LET field == NewDateNow(w, now)
      environment == IF "environment" \in o.keys THEN o.environment ELSE detected
      opts == [enabled |-> IF "enabled" \in o.keys THEN o.enabled
                           ELSE shouldEnableTimeControl(environment),
               hijackLibraries |-> IF "hijackLibraries" \in o.keys THEN o.hijackLibraries ELSE TRUE,
               environment |-> environment,
               onTimeChange |-> IF "onTimeChange" \in o.keys /\ o.onTimeChange # "undefined"
                                THEN o.onTimeChange ELSE "default"]
      fresh == [w EXCEPT !.currentTime = field.val, !.enabled = FALSE, !.options = opts,
                         !.subscribers = <<>>, !.isHijacked = FALSE, !.backup = NoBackup]
      start == IF "startTime" \in o.keys /\ ~Falsy(o.startTime)
                 THEN setTime(fresh, o.startTime)
                 ELSE resetToRealTime(fresh, now)
  IN IF field.err # "none" THEN Throw(w, field.err)
     ELSE IF start.err # "none" THEN start
     ELSE IF opts.enabled THEN enable(start)
     ELSE start

-----------------------------------------------------------------------------
(* Calls through the time bindings: the original Date, the ControlledDate that *)
(* hijackNativeFunctions installs, and the wrappers around moment.now and dayjs *)

DateResult(d) == [kind |-> "date", date |-> d, num |-> NaN, bool |-> FALSE]
NumResult(n) == [kind |-> "number", date |-> InvalidDate, num |-> n, bool |-> FALSE]
BoolResult(b) == [kind |-> "boolean", date |-> InvalidDate, num |-> NaN, bool |-> b]
\* the string a Date formats to stands for the Date it was made from
StringResult(d) == [kind |-> "string", date |-> d, num |-> NaN, bool |-> FALSE]

Returned(val) == [err |-> "none", val |-> val]
Threw(e) ==
  [err |-> e, val |-> [kind |-> "none", date |-> InvalidDate, num |-> NaN, bool |-> FALSE]]

\* the native Date, called in each shape when the wall clock reads now
OriginalCall(shape, arg, now) ==
  CASE shape = "new Date()" -> Returned(DateResult(ValidDate(now)))
    [] shape = "Date()" -> Returned(StringResult(ValidDate(now)))
    [] shape = "Date.now()" -> Returned(NumResult(Fin(now)))
    [] shape = "new Date(x)" -> Returned(DateResult(OriginalDate(arg)))
    [] shape = "Date(x)" -> Returned(StringResult(ValidDate(now)))
    [] shape = "Date.parse(x)" -> Returned(NumResult(GetTime(OriginalDate(arg))))

\* ControlledDate and ControlledDate.now.  this.constructor is the constructor of the
\* shared prototype, the original Date, which has no "original"; in a plain call this
\* is undefined.  The static methods other than now are the original's own functions.
ControlledDate(w, shape, arg, now) ==
  LET controlled == getCurrentTime(w) IN
  CASE shape = "new Date()" ->
         (IF controlled.err # "none" THEN Threw(controlled.err) ELSE Threw("TypeError"))
    [] shape = "Date()" ->
         (IF controlled.err # "none" THEN Threw(controlled.err)
          ELSE Returned(StringResult(controlled.val)))
    [] shape = "Date.now()" ->
         (IF ~isActive(w)
            THEN (IF w.backup = NoBackup THEN Threw("TypeError")
                  ELSE Returned(NumResult(Fin(now))))
          ELSE IF controlled.err # "none" THEN Threw(controlled.err)
          ELSE Returned(NumResult(GetTime(controlled.val))))
    [] shape = "new Date(x)" -> Threw("TypeError")
    [] shape = "Date(x)" -> Threw("TypeError")
    [] shape = "Date.parse(x)" -> OriginalCall(shape, arg, now)

\* the wrapper hijackMoment puts in place of moment.now; original() ends at the real clock
MomentNowWrapper(w, now) ==
  IF ~isActive(w) THEN Returned(NumResult(Fin(now)))
  ELSE LET controlled == getCurrentTime(w) IN
       IF controlled.err # "none" THEN Threw(controlled.err)
       ELSE Returned(NumResult(GetTime(controlled.val)))

\* the original dayjs: dayjs() wraps the real now, dayjs(x) what x describes
OriginalDayjs(shape, arg, now) ==
  IF shape = "dayjs()" THEN Returned(DateResult(ValidDate(now)))
  ELSE Returned(DateResult(OriginalDate(arg)))

\* the wrapper hijackDayjs puts in place of dayjs
ControlledDayjs(w, shape, arg, now) ==
  IF shape = "dayjs()" /\ isActive(w)
    THEN LET controlled == getCurrentTime(w) IN
         IF controlled.err # "none" THEN Threw(controlled.err)
         ELSE Returned(DateResult(controlled.val))
    ELSE OriginalDayjs(shape, arg, now)

-----------------------------------------------------------------------------
(* Inputs of construction and updateOptions: the keys an options object carries *)

Options(keys, e, st, hl, env, otc) ==
  [keys |-> keys, enabled |-> e, startTime |-> st, hijackLibraries |-> hl,
   environment |-> env, onTimeChange |-> otc]

NoTime == NumberArg(Fin(0))

CtorOptions ==
  { Options(ke \cup kv, e, NoTime, TRUE, env, "default") :
      ke \in {{}, {"enabled"}}, e \in BOOLEAN, kv \in {{}, {"environment"}}, env \in Named }
    \cup { Options({"enabled", "startTime"}, FALSE, st, TRUE, "test", "default") :
             st \in {NumberArg(Fin(0)), DateArg(ValidDate(MsPerMinute)), StringArg(FALSE, 0)} }
    \cup { Options({"enabled", "hijackLibraries", "onTimeChange"}, FALSE, NoTime, FALSE, "test", "f") }

Partials ==
  { Options({"hijackLibraries"}, FALSE, NoTime, hl, "test", "f") : hl \in BOOLEAN }
    \cup { Options({"environment"}, FALSE, NoTime, FALSE, env, "f") : env \in Named }
    \cup { Options({"onTimeChange"}, FALSE, NoTime, FALSE, "test", h) : h \in NewHandlers }
    \cup { Options({}, FALSE, NoTime, FALSE, "test", "f") }

\* where the libraries are found: on globalThis, through require only, or nowhere
LibSetups ==
  { [moment |-> "global", dayjs |-> "global"],
    [moment |-> "require", dayjs |-> Absent],
    [moment |-> Absent, dayjs |-> "require"] }

-----------------------------------------------------------------------------
(* The state machine *)

\* let globalController = null
NoController == 0

NoHandles == [cb \in Kept |-> [fresh |-> 0, spent |-> FALSE]]

Op(name, arg) == [name |-> name, arg |-> arg]
NoArg == [none |-> TRUE]
Idle == Op("idle", NoArg)

\* a call that went through no time binding has no result
NoResult == [kind |-> "none", date |-> InvalidDate, num |-> NaN, bool |-> FALSE]

\* the replacement bindings in place in w; the caller keeps a reference to each of them
Installed(w) ==
  (IF w.globalDate # "Date" THEN {"Date"} ELSE {})
    \cup (IF Len(w.momentNow) > 0 THEN {"moment.now"} ELSE {})
    \cup (IF w.dayjsGlobal > 0 THEN {"dayjs"} ELSE {})

\* the model follows instants of the sample set, and Invalid Date
InModel(w) ==
  /\ ~w.currentTime.valid \/ w.currentTime.t \in Instants \cup RealTimes
  /\ Len(w.momentNow) <= MaxWraps
  /\ w.dayjsGlobal <= MaxWraps

Holders == {"passed", "returned"}
NoDates == [x \in Holders |-> "none"]

\* the controller the caller addresses, with its hijacker
Controller ==
  [constructed |-> constructed, currentTime |-> currentTime, enabled |-> enabled,
   options |-> options, subscribers |-> subscribers, isHijacked |-> isHijacked,
   backup |-> backup, handles |-> handles]

NoOther ==
  [constructed |-> FALSE, currentTime |-> ValidDate(0), enabled |-> FALSE,
   options |-> [enabled |-> FALSE, hijackLibraries |-> TRUE, environment |-> "development",
                onTimeChange |-> "default"],
   subscribers |-> <<>>, isHijacked |-> FALSE, backup |-> NoBackup, handles |-> NoHandles]

\* An operation is called when the caller is idle; its outcome becomes the state.
\* Holes left in the Set are not observable once the operation has returned.
Apply(w, o) ==
  /\ op = Idle
  /\ InModel(w)
  /\ currentTime' = w.currentTime
  /\ enabled' = w.enabled
  /\ options' = w.options
  /\ subscribers' = Compact(w.subscribers)
  /\ isHijacked' = w.isHijacked
  /\ backup' = w.backup
  /\ globalDate' = w.globalDate
  /\ momentNow' = w.momentNow
  /\ dayjsGlobal' = w.dayjsGlobal
  /\ err' = w.err
  /\ calls' = w.calls
  /\ changeCalls' = w.changeCalls
  /\ op' = o
  /\ captured' = captured \cup Installed(w)
  /\ result' = NoResult
  /\ held' = w.held
  /\ UNCHANGED libs

Init ==
  /\ constructed = FALSE
  /\ currentTime = ValidDate(0)
  /\ enabled = FALSE
  /\ options = [enabled |-> FALSE, hijackLibraries |-> TRUE, environment |-> "development",
                onTimeChange |-> "default"]
  /\ subscribers = <<>>
  /\ isHijacked = FALSE
  /\ backup = NoBackup
  /\ globalDate = "Date"
  /\ libs \in LibSetups
  /\ momentNow = <<>>
  /\ dayjsGlobal = 0
  /\ handles = NoHandles
  /\ captured = {}
  /\ result = NoResult
  /\ op = Idle
  /\ err = "none"
  /\ calls = <<>>
  /\ changeCalls = <<>>
  /\ globalController = NoController
  /\ created = 0
  /\ held = NoDates
  /\ other = NoOther

\* new TimeControllerImpl(options); the caller holds the controller unless it threw
ConstructWith(O) ==
  /\ ~constructed
  /\ \E o \in O, detected \in Detected, now \in RealTimes :
       LET w == construct(World, o, detected, now) IN
       /\ Apply(w, Op("construct", [options |-> o, detected |-> detected, now |-> now]))
       /\ constructed' = (w.err = "none")
  /\ handles' = NoHandles
  /\ UNCHANGED <<globalController, created, other>>

SetTimeTo(T) ==
  /\ constructed
  /\ \E time \in T : Apply(setTime(World, time), Op("setTime", time))
  /\ UNCHANGED <<constructed, handles, globalController, created, other>>

AddTimeOf(M) ==
  /\ constructed
  /\ \E ms \in M : Apply(addTime(World, ms), Op("addTime", ms))
  /\ UNCHANGED <<constructed, handles, globalController, created, other>>

\* subscribe(callback); the caller keeps the returned function of the callbacks in K
SubscribeOf(C, K) ==
  /\ constructed
  /\ \E cb \in C :
       /\ Apply(subscribe(World, cb), Op("subscribe", [cb |-> cb]))
       /\ handles' = IF cb \in K /\ handles[cb].fresh < MaxHandles
                       THEN [handles EXCEPT ![cb].fresh = @ + 1] ELSE handles
  /\ UNCHANGED <<constructed, globalController, created, other>>

Construct == ConstructWith(CtorOptions)

SetTime == SetTimeTo(TimeInputs)

AddTime == AddTimeOf(Millis)

AddMinutes ==
  /\ constructed
  /\ \E n \in Counts \cup Fractions : Apply(addMinutes(World, n), Op("addMinutes", n))
  /\ UNCHANGED <<constructed, handles, globalController, created, other>>

AddHours ==
  /\ constructed
  /\ \E n \in Counts : Apply(addHours(World, n), Op("addHours", n))
  /\ UNCHANGED <<constructed, handles, globalController, created, other>>

AddDays ==
  /\ constructed
  /\ \E n \in Counts : Apply(addDays(World, n), Op("addDays", n))
  /\ UNCHANGED <<constructed, handles, globalController, created, other>>

ResetToRealTime ==
  /\ constructed
  /\ \E now \in RealTimes : Apply(resetToRealTime(World, now), Op("resetToRealTime", [now |-> now]))
  /\ UNCHANGED <<constructed, handles, globalController, created, other>>

Enable ==
  /\ constructed
  /\ Apply(enable(World), Op("enable", NoArg))
  /\ UNCHANGED <<constructed, handles, globalController, created, other>>

Disable ==
  /\ constructed
  /\ Apply(disable(World), Op("disable", NoArg))
  /\ UNCHANGED <<constructed, handles, globalController, created, other>>

\* subscribe with a callback that only returns or throws, or with no function; the
\* returned function is dropped
Subscribe == SubscribeOf({"p", "t", "not-a-function"}, {})

UpdateOptions ==
  /\ constructed
  /\ \E partial \in Partials : Apply(updateOptions(World, partial), Op("updateOptions", partial))
  /\ UNCHANGED <<constructed, handles, globalController, created, other>>

Destroy ==
  /\ constructed
  /\ Apply(destroy(World), Op("destroy", NoArg))
  /\ UNCHANGED <<constructed, handles, globalController, created, other>>

\* A call through a binding changes nothing but what the caller sees returned
Observe(o, out) ==
  /\ op = Idle
  /\ op' = o
  /\ err' = out.err
  /\ result' = out.val
  /\ UNCHANGED <<constructed, currentTime, enabled, options, subscribers, isHijacked, backup,
                 globalDate, libs, momentNow, dayjsGlobal, handles, captured, calls,
                 changeCalls, globalController, created, held, other>>

\* new Date(), Date(), Date.now(), new Date(x), Date(x), Date.parse(x)
CallDate ==
  \E c \in DateCalls, through \in Through, now \in RealTimes :
    /\ through = "captured" => "Date" \in captured
    /\ Observe(Op("Date", [shape |-> c.shape, arg |-> c.arg, through |-> through, now |-> now]),
               IF through = "global" /\ globalDate = "Date"
                 THEN OriginalCall(c.shape, c.arg, now)
                 ELSE ControlledDate(World, c.shape, c.arg, now))

\* moment.now()
CallMomentNow ==
  \E through \in Through, now \in RealTimes :
    /\ through = "global" => libs.moment # Absent
    /\ through = "captured" => "moment.now" \in captured
    /\ Observe(Op("moment.now", [shape |-> "moment.now()", through |-> through, now |-> now]),
               IF through = "global" /\ Len(momentNow) = 0
                 THEN Returned(NumResult(Fin(now)))
                 ELSE MomentNowWrapper(World, now))

\* dayjs(), dayjs(x)
CallDayjs ==
  \E c \in DayjsCalls, through \in Through, now \in RealTimes :
    /\ through = "global" => libs.dayjs = "global"
    /\ through = "captured" => "dayjs" \in captured
    /\ Observe(Op("dayjs", [shape |-> c.shape, arg |-> c.arg, through |-> through, now |-> now]),
               IF through = "global" /\ dayjsGlobal = 0
                 THEN OriginalDayjs(c.shape, c.arg, now)
                 ELSE ControlledDayjs(World, c.shape, c.arg, now))

\* shouldEnableTimeControl(env) with an explicit env
ShouldEnableTimeControl ==
  \E env \in Environments :
    Observe(Op("shouldEnableTimeControl", [env |-> env]),
            Returned(BoolResult(shouldEnableTimeControl(env))))

\* the caller has looked at the outcome of the call and goes on
Return ==
  /\ op # Idle
  /\ op' = Idle
  /\ err' = "none"
  /\ calls' = <<>>
  /\ changeCalls' = <<>>
  /\ result' = NoResult
  /\ UNCHANGED <<constructed, currentTime, enabled, options, subscribers, isHijacked, backup,
                 globalDate, libs, momentNow, dayjsGlobal, handles, captured,
                 globalController, created, held, other>>

Next ==
  \/ Construct
  \/ SetTime
  \/ AddTime
  \/ AddMinutes
  \/ AddHours
  \/ AddDays
  \/ ResetToRealTime
  \/ Enable
  \/ Disable
  \/ Subscribe
  \/ UpdateOptions
  \/ Destroy
  \/ CallDate
  \/ CallMomentNow
  \/ CallDayjs
  \/ ShouldEnableTimeControl
  \/ Return

Spec == Init /\ [][Next]_vars

-----------------------------------------------------------------------------
(* The subscription rounds: every kind of callback, the unsubscribe functions,  *)
(* and the operations that notify.                                              *)

RoundOptions == { Options({"enabled", "onTimeChange"}, FALSE, NoTime, TRUE, "test", "f") }
RoundTimes == {DateArg(ValidDate(0)), DateArg(ValidDate(MsPerDay)), StringArg(FALSE, 0)}
RoundMillis == {Fin(MsPerMinute), Fin(-MsPerMinute)}

ConstructPlain == ConstructWith(RoundOptions)

SetTimeSome == SetTimeTo(RoundTimes)

AddTimeSome == AddTimeOf(RoundMillis)

SubscribeAny == SubscribeOf(SubscribeInputs, Kept)

\* the first call of an unsubscribe function the caller holds
Unsubscribe ==
  /\ constructed
  /\ \E cb \in Kept :
       /\ handles[cb].fresh > 0
       /\ Apply(unsubscribe(World, cb), Op("unsubscribe", [cb |-> cb]))
       /\ handles' = [handles EXCEPT ![cb].fresh = @ - 1, ![cb].spent = TRUE]
  /\ UNCHANGED <<constructed, globalController, created, other>>

\* a further call of an unsubscribe function that has been called before
UnsubscribeAgain ==
  /\ constructed
  /\ \E cb \in Kept :
       /\ handles[cb].spent
       /\ Apply(unsubscribe(World, cb), Op("unsubscribeAgain", [cb |-> cb]))
  /\ UNCHANGED <<constructed, handles, globalController, created, other>>

NextRounds ==
  \/ ConstructPlain
  \/ SetTimeSome
  \/ AddTimeSome
  \/ Enable
  \/ Disable
  \/ SubscribeAny
  \/ Unsubscribe
  \/ UnsubscribeAgain
  \/ Destroy
  \/ Return

SpecRounds == Init /\ [][NextRounds]_vars

-----------------------------------------------------------------------------
(* A TimeHijacker the caller makes for a controller that stays Disabled, and  *)
(* drives directly.  An install records whether it found a replacement already *)
(* in place.                                                                   *)

HijackNativeFunctions ==
  /\ constructed
  /\ Apply(hijackNativeFunctions(World), Op("hijackNativeFunctions", [again |-> isHijacked]))
  /\ UNCHANGED <<constructed, handles, globalController, created, other>>

RestoreNativeFunctions ==
  /\ constructed
  /\ Apply(restoreNativeFunctions(World), Op("restoreNativeFunctions", NoArg))
  /\ UNCHANGED <<constructed, handles, globalController, created, other>>

HijackLibraries ==
  /\ constructed
  /\ Apply(hijackLibraries(World),
           Op("hijackLibraries", [again |-> Len(momentNow) > 0 \/ dayjsGlobal > 0]))
  /\ UNCHANGED <<constructed, handles, globalController, created, other>>

RestoreLibraries ==
  /\ constructed
  /\ Apply(restoreLibraries(World), Op("restoreLibraries", NoArg))
  /\ UNCHANGED <<constructed, handles, globalController, created, other>>

HijackerDestroy ==
  /\ constructed
  /\ Apply(hijackerDestroy(World), Op("hijacker.destroy", NoArg))
  /\ UNCHANGED <<constructed, handles, globalController, created, other>>

NextHijacker ==
  \/ ConstructPlain
  \/ SetTimeSome
  \/ HijackNativeFunctions
  \/ RestoreNativeFunctions
  \/ HijackLibraries
  \/ RestoreLibraries
  \/ HijackerDestroy
  \/ CallDate
  \/ CallMomentNow
  \/ CallDayjs
  \/ Return

SpecHijacker == Init /\ [][NextHijacker]_vars

-----------------------------------------------------------------------------
(* The module's singleton: getTimeController, initializeTimeControl and        *)
(* cleanupTimeControl.  The caller works with the controller these return and  *)
(* lets go of one that has been destroyed; when a construction throws inside   *)
(* initializeTimeControl, globalController keeps the destroyed controller and   *)
(* the caller has none to work with.                                            *)

SingletonOptions ==
  { Options({"enabled"}, FALSE, NoTime, TRUE, "test", "default"),
    Options({"enabled", "onTimeChange"}, FALSE, NoTime, TRUE, "test", "f"),
    Options({"enabled", "onTimeChange"}, FALSE, NoTime, TRUE, "test", "undefined"),
    Options({}, FALSE, NoTime, TRUE, "test", "default") }

\* getTimeController(options) while globalController is null
GetTimeControllerFirst ==
  /\ globalController = NoController
  /\ ~constructed
  /\ created < MaxControllers
  /\ \E o \in SingletonOptions, detected \in Detected, now \in RealTimes :
       LET w == construct(World, o, detected, now) IN
       /\ Apply(w, Op("getTimeController", [options |-> o, detected |-> detected, now |-> now]))
       /\ constructed' = (w.err = "none")
       /\ globalController' = IF w.err = "none" THEN created + 1 ELSE NoController
  /\ created' = created + 1
  /\ UNCHANGED other
  /\ handles' = NoHandles

\* getTimeController() and getTimeController(options) while globalController holds one
GetTimeControllerAgain ==
  /\ globalController # NoController
  /\ constructed
  /\ \/ Apply(World, Op("getTimeController", NoArg))
     \/ \E o \in SingletonOptions :
          Apply(updateOptions(World, o), Op("getTimeController", [options |-> o]))
  /\ UNCHANGED <<constructed, handles, globalController, created, other>>

\* initializeTimeControl(options)
InitializeTimeControl ==
  /\ globalController # NoController => constructed
  /\ globalController = NoController => ~constructed
  /\ created < MaxControllers
  /\ \E o \in SingletonOptions, detected \in Detected, now \in RealTimes :
       LET previous == IF globalController # NoController THEN destroy(World) ELSE World
           w == IF previous.err # "none" THEN previous
                ELSE construct(previous, o, detected, now)
       IN /\ Apply(w, Op("initializeTimeControl",
                          [options |-> o, detected |-> detected, now |-> now]))
          /\ constructed' = IF previous.err # "none" THEN constructed ELSE w.err = "none"
          /\ globalController' = IF w.err = "none" THEN created + 1 ELSE globalController
          /\ created' = IF previous.err # "none" THEN created ELSE created + 1
          /\ UNCHANGED other
  /\ handles' = NoHandles

\* cleanupTimeControl()
CleanupTimeControl ==
  /\ globalController # NoController => constructed
  /\ globalController = NoController => ~constructed
  /\ LET w == IF globalController # NoController THEN destroy(World) ELSE World IN
     /\ Apply(w, Op("cleanupTimeControl", NoArg))
     /\ globalController' = IF w.err = "none" THEN NoController ELSE globalController
     /\ constructed' = IF w.err = "none" THEN FALSE ELSE constructed
  /\ handles' = NoHandles
  /\ UNCHANGED <<created, other>>

\* what enableTimeTravel is called with
TravelTimes == {DateArg(ValidDate(0)), DateArg(ValidDate(MsPerDay)), NumberArg(Fin(0))}

\* enableTimeTravel(startTime): getTimeController({enabled: true, startTime: startTime ||
\* new Date()}), which constructs while globalController is null and otherwise only
\* hands the options to updateOptions
EnableTimeTravel ==
  /\ globalController # NoController => constructed
  /\ globalController = NoController => (~constructed /\ created < MaxControllers)
  /\ \E st \in TravelTimes, detected \in Detected, now \in RealTimes :
       LET real == NewDateNow(World, now)
           o == Options({"enabled", "startTime"}, TRUE,
                        IF Falsy(st) THEN DateArg(real.val) ELSE st, TRUE, "test", "default")
           w == IF Falsy(st) /\ real.err # "none" THEN Throw(World, real.err)
                ELSE IF globalController = NoController THEN construct(World, o, detected, now)
                ELSE updateOptions(World, o)
           made == globalController = NoController /\ ~(Falsy(st) /\ real.err # "none")
       IN /\ Apply(w, Op("enableTimeTravel",
                          [startTime |-> st, detected |-> detected, now |-> now]))
          /\ constructed' = IF made THEN w.err = "none" ELSE constructed
          /\ globalController' = IF made /\ w.err = "none" THEN created + 1 ELSE globalController
          /\ created' = IF made THEN created + 1 ELSE created
          /\ UNCHANGED other
          /\ handles' = IF made THEN NoHandles ELSE handles

NextSingleton ==
  \/ GetTimeControllerFirst
  \/ GetTimeControllerAgain
  \/ InitializeTimeControl
  \/ CleanupTimeControl
  \/ EnableTimeTravel
  \/ SetTimeSome
  \/ Enable
  \/ Disable
  \/ Subscribe
  \/ Return

SpecSingleton == Init /\ [][NextSingleton]_vars

-----------------------------------------------------------------------------
(* Subscribers that change the Date they are given, or call back into the       *)
(* controller from inside a notification round.                                 *)

SubscribeReentrant == SubscribeOf({"p"} \cup ReentrantCallbacks, {})

SetTimeOuter ==
  /\ constructed
  /\ \E time \in RoundTimes : Apply(setTimeOuter(World, time), Op("setTime", time))
  /\ UNCHANGED <<constructed, handles, globalController, created, other>>

EnableOuter ==
  /\ constructed
  /\ Apply(enableOuter(World), Op("enable", NoArg))
  /\ UNCHANGED <<constructed, handles, globalController, created, other>>

DisableOuter ==
  /\ constructed
  /\ Apply(disableOuter(World), Op("disable", NoArg))
  /\ UNCHANGED <<constructed, handles, globalController, created, other>>

DestroyOuter ==
  /\ constructed
  /\ Apply(destroyOuter(World), Op("destroy", NoArg))
  /\ UNCHANGED <<constructed, handles, globalController, created, other>>

NextReentrant ==
  \/ ConstructPlain
  \/ SetTimeOuter
  \/ EnableOuter
  \/ DisableOuter
  \/ SubscribeReentrant
  \/ DestroyOuter
  \/ Return

SpecReentrant == Init /\ [][NextReentrant]_vars

-----------------------------------------------------------------------------
(* The Dates that go in and out of the controller, and what the caller does to *)
(* them afterwards.                                                             *)

\* what the caller sets a Date it holds to, with Date.prototype.setTime
Mutations == {ValidDate(MsPerMinute), InvalidDate}

\* controller.setTime(d), the caller keeping d
SetTimeKeeping ==
  /\ constructed
  /\ \E time \in RoundTimes :
       LET w == setTime(World, time) IN
       Apply([w EXCEPT !.held = IF w.given = "none" THEN @ ELSE [@ EXCEPT !.passed = w.given]],
             Op("setTime", time))
  /\ UNCHANGED <<constructed, handles, globalController, created, other>>

\* d = controller.getCurrentTime(), the caller keeping d
GetCurrentTime ==
  /\ constructed
  /\ op = Idle
  /\ LET out == getCurrentTime(World) IN
       /\ op' = Op("getCurrentTime", NoArg)
       /\ err' = out.err
       /\ result' = IF out.err = "none" THEN DateResult(out.val) ELSE NoResult
       /\ held' = IF out.err # "none" THEN held
                  ELSE [held EXCEPT !.returned = IF out.same THEN "same" ELSE "copy"]
  /\ UNCHANGED <<constructed, currentTime, enabled, options, subscribers, isHijacked, backup,
                 globalDate, libs, momentNow, dayjsGlobal, handles, captured, calls,
                 changeCalls, globalController, created, other>>

\* d.setTime(v) on a Date the caller holds: this.currentTime changes if d is that object
MutateHeld ==
  /\ op = Idle
  /\ \E x \in Holders, v \in Mutations :
       /\ held[x] # "none"
       /\ op' = Op("mutate", [which |-> x, to |-> v])
       /\ currentTime' = IF held[x] = "same" THEN v ELSE currentTime
  /\ UNCHANGED <<constructed, enabled, options, subscribers, isHijacked, backup,
                 globalDate, libs, momentNow, dayjsGlobal, handles, captured, result, err,
                 calls, changeCalls, globalController, created, held, other>>

NextCopies ==
  \/ ConstructPlain
  \/ SetTimeKeeping
  \/ AddTimeSome
  \/ GetCurrentTime
  \/ MutateHeld
  \/ Enable
  \/ Disable
  \/ Return

SpecCopies == Init /\ [][NextCopies]_vars

-----------------------------------------------------------------------------
(* Two controllers held by the caller, each with its own TimeHijacker, on the   *)
(* same global bindings.                                                        *)

\* the ControlledDate classes, seen from the other controller
Rename(binding) ==
  CASE binding = "ControlledDate" -> "OtherControlledDate"
    [] binding = "OtherControlledDate" -> "ControlledDate"
    [] OTHER -> binding

\* a second new TimeControllerImpl(options); the caller addresses it from now on
ConstructSecond ==
  /\ constructed
  /\ ~other.constructed
  /\ \E o \in RoundOptions, detected \in Detected, now \in RealTimes :
       LET w == construct(World, o, detected, now) IN
       /\ w.err = "none"
       /\ Apply([w EXCEPT !.globalDate = Rename(@)],
                Op("construct", [options |-> o, detected |-> detected, now |-> now]))
  /\ other' = [Controller EXCEPT !.backup = Rename(@)]
  /\ handles' = NoHandles
  /\ UNCHANGED <<constructed, globalController, created>>

\* the caller turns to the other controller it holds
Switch ==
  /\ op = Idle
  /\ constructed
  /\ other.constructed
  /\ other' = [Controller EXCEPT !.backup = Rename(@)]
  /\ currentTime' = other.currentTime
  /\ enabled' = other.enabled
  /\ options' = other.options
  /\ subscribers' = other.subscribers
  /\ isHijacked' = other.isHijacked
  /\ backup' = Rename(other.backup)
  /\ handles' = other.handles
  /\ globalDate' = Rename(globalDate)
  /\ UNCHANGED <<constructed, libs, momentNow, dayjsGlobal, captured, result, op, err, calls,
                 changeCalls, globalController, created, held>>

NextTwo ==
  \/ ConstructPlain
  \/ ConstructSecond
  \/ Switch
  \/ Enable
  \/ Disable
  \/ Destroy
  \/ Return

SpecTwo == Init /\ [][NextTwo]_vars

-----------------------------------------------------------------------------
(* What the claims speak of *)

\* the instant a value given to setTime resolves to, by the original Date
Resolve(time) == OriginalDate(time)

TimeOps == {"setTime", "addTime", "addMinutes", "addHours", "addDays", "resetToRealTime"}
AddOps == {"addTime", "addMinutes", "addHours", "addDays"}

\* how often cb was invoked during the last operation
Invocations(log, cb) == Cardinality({i \in 1..Len(log) : log[i].cb = cb})

Invoked(log, cb) == \E i \in 1..Len(log) : log[i].cb = cb

\* what getCurrentTime() returns to the caller in the state reached
CurrentTimeAfter ==
  IF globalDate' = "ControlledDate"
    THEN [err |-> "TypeError", val |-> InvalidDate]
    ELSE [err |-> "none", val |-> currentTime']

-----------------------------------------------------------------------------
(* C1: in every reachable state the virtual instant is a finite, valid point *)
(* in time; no operation leaves an invalid instant stored.                   *)
C1_InstantAlwaysValid == currentTime.valid

(* C2: setTime with a value that does not resolve to a finite instant throws, *)
(* and leaves the instant as it was, with no subscriber and no onTimeChange   *)
(* callback invoked.                                                          *)
C2_InvalidSetTimeRejected ==
  [][(op'.name = "setTime" /\ ~Resolve(op'.arg).valid) =>
       /\ err' # "none"
       /\ currentTime' = currentTime
       /\ calls' = <<>>
       /\ changeCalls' = <<>>]_vars

C2_Witness ==
  /\ op.name = "setTime"
  /\ ~Resolve(op.arg).valid
  /\ err = "Error"
  /\ subscribers # <<>>
  /\ options.onTimeChange = "f"

(* C3: addTime fails for every argument that is not a finite number, leaving   *)
(* the instant unchanged and nobody notified; addMinutes, addHours and addDays *)
(* inherit this.                                                               *)
C3_NonFiniteDurationRejected ==
  [][(op'.name \in AddOps /\ ~IsFinite(op'.arg)) =>
       /\ err' # "none"
       /\ currentTime' = currentTime
       /\ calls' = <<>>
       /\ changeCalls' = <<>>]_vars

(* C4: for any valid instant T, in either activation state, setTime(T) followed *)
(* by getCurrentTime() yields exactly T.                                        *)
C4_SetTimeRoundTrip ==
  [][(op'.name = "setTime" /\ Resolve(op'.arg).valid) =>
       CurrentTimeAfter = [err |-> "none", val |-> Resolve(op'.arg)]]_vars

\* cb's unsubscribe function was called, or cb was subscribed, by a callback of the round
UnsubscribedInRound(cb) == cb = "p" /\ HoldsHandle("p") /\ Invoked(calls', "u")
SubscribedInRound(cb) == cb = "p" /\ Invoked(calls', "s")

(* C5: once cb is subscribed, each successful setTime(T) invokes cb exactly once, *)
(* with T, before it returns; once the returned unsubscribe function has been    *)
(* called, no later operation invokes cb.  A callback that another callback      *)
(* unsubscribes during the round need not be invoked, but none is invoked twice.  *)
C5_NotifiedExactlyOnce ==
  [][/\ (op'.name = "setTime" /\ err' = "none") =>
          \A cb \in Callbacks :
            /\ Invocations(calls', cb) <= 1
            /\ (SetHas(subscribers, cb) /\ ~UnsubscribedInRound(cb)) =>
                 Invocations(calls', cb) = 1
            /\ \A i \in 1..Len(calls') :
                 calls'[i].cb = cb => calls'[i].time = Resolve(op'.arg)
     /\ op'.name = "unsubscribe" => ~SetHas(subscribers', op'.arg.cb)
     /\ \A cb \in Callbacks :
          (~SetHas(subscribers, cb) /\ ~SubscribedInRound(cb)) => ~Invoked(calls', cb)]_vars

C7_RoundUsesSnapshot ==
  [][(op'.name \in TimeOps /\ err' = "none") =>
       \A cb \in Callbacks :
         Invocations(calls', cb) = IF SetHas(subscribers, cb) THEN 1 ELSE 0]_vars

(* C8: the function subscribe(cb) returns removes only the subscription of that  *)
(* call: a second invocation changes nothing, even when cb has been subscribed  *)
(* again meanwhile, and it never removes the subscription of another subscribe  *)
(* call.                                                                         *)
C8_UnsubscribeOwnSubscriptionOnly ==
  [][/\ op'.name = "unsubscribeAgain" => subscribers' = subscribers
     /\ (op'.name = "unsubscribe" /\ handles[op'.arg.cb].fresh > 1) =>
          SetHas(subscribers', op'.arg.cb)]_vars

(* C9: with the environment production and no explicit activation, enable() on *)
(* the Disabled controller does not throw, leaves it Disabled, installs no     *)
(* native or library interception and notifies no subscriber.                  *)
C9_EnableRefusedInProduction ==
  [][(op'.name = "enable" /\ options.environment = "production" /\ ~enabled) =>
       /\ err' = "none"
       /\ ~enabled'
       /\ ~isHijacked'
       /\ globalDate' = globalDate
       /\ momentNow' = momentNow
       /\ dayjsGlobal' = dayjsGlobal
       /\ calls' = <<>>]_vars

C9_Witness ==
  /\ op.name = "enable"
  /\ options.environment = "production"
  /\ ~enabled
  /\ err = "none"
  /\ options.hijackLibraries
  /\ libs.moment = "global"
  /\ subscribers # <<>>
  /\ globalDate = "Date"

(* C10: after any sequence of construction, enable, disable and updateOptions *)
(* the controller is never active while its environment is production.        *)
C10_NeverActiveInProduction == ~(enabled /\ options.environment = "production")

-----------------------------------------------------------------------------
(* What the claims about construction and the bindings speak of *)

\* the environment a construction settles on
EnvironmentOf(arg) ==
  IF "environment" \in arg.options.keys THEN arg.options.environment ELSE arg.detected

\* the last call went through a replacement binding, in place or kept from before
ThroughReplacement ==
  \/ op'.arg.through = "captured"
  \/ op'.name = "Date" /\ globalDate = "ControlledDate"
  \/ op'.name = "moment.now" /\ Len(momentNow) > 0
  \/ op'.name = "dayjs" /\ dayjsGlobal > 0

\* what the un-hijacked original returns for the last call
OriginalOutcome ==
  CASE op'.name = "Date" -> OriginalCall(op'.arg.shape, op'.arg.arg, op'.arg.now)
    [] op'.name = "moment.now" -> Returned(NumResult(Fin(op'.arg.now)))
    [] op'.name = "dayjs" -> OriginalDayjs(op'.arg.shape, op'.arg.arg, op'.arg.now)

BindingCalls == {"Date", "moment.now", "dayjs"}
NowShapes == {"new Date()", "Date()", "Date.now()", "moment.now()", "dayjs()"}

(* C11: construction returns a controller whose activation follows the          *)
(* configuration: enabled true starts it Enabled and enabled false Disabled in *)
(* any environment; with enabled omitted it starts Enabled exactly when the    *)
(* environment is not production.                                               *)
C11_InitialActivationFromConfig ==
  [][op'.name = "construct" =>
       /\ err' = "none"
       /\ enabled' = IF "enabled" \in op'.arg.options.keys
                       THEN op'.arg.options.enabled
                       ELSE EnvironmentOf(op'.arg) # "production"]_vars

(* C12: while the controller is Enabled and ControlledDate is installed, new    *)
(* Date() and Date.now() return without error the controller's current instant, *)
(* whatever setTime and addTime have made it.                                   *)
C12_EnabledNowIsVirtual ==
  [][(/\ op'.name = "Date"
      /\ op'.arg.through = "global"
      /\ constructed /\ enabled /\ isHijacked /\ globalDate = "ControlledDate") =>
       /\ op'.arg.shape = "new Date()" =>
            (err' = "none" /\ result' = DateResult(currentTime))
       /\ op'.arg.shape = "Date.now()" =>
            (err' = "none" /\ result' = NumResult(GetTime(currentTime)))]_vars

(* C13: while the controller is Disabled, a zero-argument call through a       *)
(* replacement binding, in place or kept from when it was, returns what the    *)
(* original binding returns: the real time, never the virtual instant.         *)
C13_TransparentWhenDisabled ==
  [][(/\ op'.name \in BindingCalls
      /\ op'.arg.shape \in NowShapes
      /\ ~enabled
      /\ ThroughReplacement) =>
       [err |-> err', val |-> result'] = OriginalOutcome]_vars

(* C14: in every call shape other than zero-argument construction and the now  *)
(* accessor, the replacement Date returns what the original returns, whether   *)
(* the controller is Enabled or Disabled.                                      *)
C14_OtherShapesDelegate ==
  [][(/\ op'.name = "Date"
      /\ op'.arg.shape \in {"new Date(x)", "Date(x)", "Date.parse(x)"}
      /\ ThroughReplacement) =>
       [err |-> err', val |-> result'] = OriginalOutcome]_vars

(* C15: every restoreNativeFunctions leaves the global Date binding the         *)
(* pristine original, whatever installs and restores came before it; an install *)
(* made while a replacement is installed changes neither the global binding nor *)
(* the backup.                                                                   *)
C15_NativeInstallIdempotent ==
  [][/\ op'.name = "restoreNativeFunctions" => (globalDate' = "Date" /\ ~isHijacked')
     /\ (op'.name = "hijackNativeFunctions" /\ isHijacked) =>
          (globalDate' = globalDate /\ backup' = backup /\ isHijacked')]_vars

C15_Witness ==
  /\ op.name = "hijackNativeFunctions"
  /\ op.arg.again
  /\ isHijacked
  /\ globalDate = "ControlledDate"
  /\ backup = "Date"

(* C16: a hijackLibraries made while the libraries are wrapped changes nothing, *)
(* so no binding is ever wrapped twice and one restoreLibraries leaves          *)
(* moment.now and dayjs, found on the global object, the pristine originals.    *)
C16_LibraryInstallIdempotent ==
  [][/\ (op'.name = "hijackLibraries" /\ (Len(momentNow) > 0 \/ dayjsGlobal > 0)) =>
          (momentNow' = momentNow /\ dayjsGlobal' = dayjsGlobal)
     /\ (op'.name = "restoreLibraries" /\ libs.moment = "global" /\ libs.dayjs = "global") =>
          (momentNow' = <<>> /\ dayjsGlobal' = 0)]_vars

(* C17: restoreLibraries after one hijackLibraries leaves every binding the     *)
(* install replaced the pristine original, wherever the library was found: on  *)
(* the global object or through the module loader.                              *)
C17_LibraryRestoreSymmetric ==
  [][(op'.name = "restoreLibraries" /\ Len(momentNow) <= 1 /\ dayjsGlobal <= 1) =>
       (momentNow' = <<>> /\ dayjsGlobal' = 0)]_vars

(* C18: the hijacker holds a native backup exactly while its replacement of    *)
(* Date is installed.                                                           *)
C18_BackupIffInstalled == (backup # NoBackup) <=> isHijacked

(* C19: resetToRealTime() returns with the virtual instant equal to what the   *)
(* wall clock reads, whether the controller is Disabled or Enabled with Date   *)
(* redirected.                                                                  *)
C19_ResetReadsWallClock ==
  [][op'.name = "resetToRealTime" =>
       (err' = "none" /\ currentTime' = ValidDate(op'.arg.now))]_vars

\* the milliseconds in the unit addMinutes, addHours and addDays count in
Multiplier(name) ==
  CASE name = "addMinutes" -> 60000
    [] name = "addHours" -> 3600000
    [] name = "addDays" -> 86400000

(* C20: for an integer n, negative included, addMinutes(n), addHours(n) and    *)
(* addDays(n) move the instant by exactly n*60000, n*3600000 and n*86400000    *)
(* milliseconds, where that stays a valid time, as addTime of the product does. *)
C20_UnitsAreExactMultiples ==
  [][(/\ op'.name \in {"addMinutes", "addHours", "addDays"}
      /\ IsFinite(op'.arg) /\ op'.arg.den = 1
      /\ currentTime.valid
      /\ TimeClip(Fin(currentTime.t + op'.arg.v * Multiplier(op'.name))).valid) =>
       /\ err' = "none"
       /\ currentTime' = ValidDate(currentTime.t + op'.arg.v * Multiplier(op'.name))
       /\ currentTime' = addTime(World, Fin(op'.arg.v * Multiplier(op'.name))).currentTime]_vars

(* C21: for any finite m, fractional m whose product in milliseconds is not a *)
(* whole number included, addMinutes(m) followed by addMinutes(-m) restores the *)
(* instant held before the first call.                                          *)
C21_AddMinutesInverse ==
  [][(op'.name = "addMinutes" /\ IsFinite(op'.arg) /\ err' = "none" /\ currentTime'.valid) =>
       LET back == addMinutes(World', NumNeg(op'.arg)) IN
       back.err = "none" /\ back.currentTime = currentTime]_vars

\* every subscriber held before the operation was invoked exactly once, with time
EachNotifiedOnce(time) ==
  /\ \A cb \in Callbacks : Invocations(calls', cb) = IF SetHas(subscribers, cb) THEN 1 ELSE 0
  /\ \A i \in 1..Len(calls') : calls'[i].time = time

(* C22: enable() on a Disabled controller whose environment allows it returns  *)
(* with the controller Enabled, ControlledDate installed, the libraries wrapped *)
(* when hijackLibraries is set, and each subscriber notified exactly once;      *)
(* enable() on an Enabled controller changes nothing and notifies no one.       *)
C22_EnableInstallsThenNotifies ==
  [][/\ (op'.name = "enable" /\ ~enabled /\ options.environment # "production") =>
          /\ err' = "none"
          /\ enabled' /\ isHijacked' /\ globalDate' = "ControlledDate"
          /\ (options.hijackLibraries /\ libs.moment # Absent) => Len(momentNow') > 0
          /\ (options.hijackLibraries /\ libs.dayjs = "global") => dayjsGlobal' > 0
          /\ EachNotifiedOnce(currentTime)
     /\ (op'.name = "enable" /\ enabled) =>
          /\ err' = "none" /\ calls' = <<>>
          /\ UNCHANGED <<currentTime, enabled, options, subscribers, isHijacked, backup,
                         globalDate, momentNow, dayjsGlobal>>]_vars

(* C23: disable() on an Enabled controller returns with the controller Disabled, *)
(* the original Date and the original library bindings back in place, the       *)
(* instant unchanged and each subscriber notified exactly once; disable() on a   *)
(* Disabled controller changes nothing and notifies no one.                      *)
C23_DisableRestoresThenNotifies ==
  [][/\ (op'.name = "disable" /\ enabled) =>
          /\ err' = "none"
          /\ ~enabled' /\ ~isHijacked' /\ globalDate' = "Date"
          /\ momentNow' = <<>> /\ dayjsGlobal' = 0
          /\ currentTime' = currentTime
          /\ EachNotifiedOnce(currentTime)
     /\ (op'.name = "disable" /\ ~enabled) =>
          /\ err' = "none" /\ calls' = <<>>
          /\ UNCHANGED <<currentTime, enabled, options, subscribers, isHijacked, backup,
                         globalDate, momentNow, dayjsGlobal>>]_vars

(* C24: subscribe with an argument that is not a function throws and leaves the *)
(* subscriber set as it was; no operation ever invokes anything that is not a   *)
(* function.                                                                     *)
C24_NonCallableRejected ==
  [][/\ (op'.name = "subscribe" /\ op'.arg.cb \notin Callbacks) =>
          (err' = "Error" /\ subscribers' = subscribers)
     /\ \A i \in 1..Len(calls') : calls'[i].cb \in Callbacks]_vars

C24_Witness ==
  /\ op.name = "subscribe"
  /\ op.arg.cb = "not-a-function"
  /\ err = "Error"
  /\ subscribers # <<>>

(* C29: every successful setTime, addTime, addMinutes, addHours, addDays and  *)
(* resetToRealTime invokes the configured onTimeChange exactly once, with the *)
(* new instant, after the instant is replaced and after the subscribers of    *)
(* the round were invoked.                                                     *)
C29_ChangeHandlerOnceAfterSubscribers ==
  [][(op'.name \in TimeOps /\ err' = "none" /\ options.onTimeChange # "default") =>
       /\ changeCalls' = <<[cb |-> options.onTimeChange, time |-> currentTime',
                            after |-> Len(calls')]>>
       /\ op'.name = "setTime" => currentTime' = Resolve(op'.arg)
       /\ op'.name = "resetToRealTime" => currentTime' = ValidDate(op'.arg.now)
       /\ op'.name \in AddOps =>
            currentTime' = TimeClip(NumAdd(GetTime(currentTime),
                                           IF op'.name = "addTime" THEN op'.arg
                                           ELSE NumScale(op'.arg, Multiplier(op'.name))))]_vars

C29_Witness ==
  /\ op.name \in TimeOps
  /\ err = "none"
  /\ Len(calls) = 2
  /\ changeCalls = <<[cb |-> "f", time |-> currentTime, after |-> 2]>>
  /\ op.name = "setTime" => currentTime = Resolve(op.arg)

(* C30: for every valid startTime given to the constructor, a Date, a string  *)
(* or a number, 0 included, the instant right after construction is that       *)
(* startTime; only without a startTime is it the real current time.            *)
C30_StartTimeHonoured ==
  [][op'.name = "construct" =>
       IF "startTime" \in op'.arg.options.keys
         THEN Resolve(op'.arg.options.startTime).valid =>
                (err' = "none" /\ currentTime' = Resolve(op'.arg.options.startTime))
         ELSE err' = "none" => currentTime' = ValidDate(op'.arg.now)]_vars

\* the library bindings the install can reach are wrapped; none is wrapped
LibrariesInstalled ==
  /\ libs.moment # Absent => Len(momentNow) > 0
  /\ libs.dayjs = "global" => dayjsGlobal > 0
LibrariesPristine == momentNow = <<>> /\ dayjsGlobal = 0

(* C25: once a controller operation has returned, the libraries are wrapped    *)
(* exactly when the controller is Enabled and hijackLibraries is true.          *)
C25_LibrariesFollowActivation ==
  IF enabled /\ options.hijackLibraries THEN LibrariesInstalled ELSE LibrariesPristine

(* C26: updateOptions with a partial that carries onTimeChange invokes the new *)
(* handler exactly once, with the current instant, and neither the previous    *)
(* handler nor any subscriber; with a partial that carries none it invokes     *)
(* nothing.                                                                     *)
C26_NewHandlerCatchesUp ==
  [][op'.name = "updateOptions" =>
       /\ err' = "none"
       /\ calls' = <<>>
       /\ currentTime' = currentTime
       /\ changeCalls' = IF "onTimeChange" \in op'.arg.keys
                           THEN <<[cb |-> op'.arg.onTimeChange, time |-> currentTime,
                                   after |-> 0]>>
                           ELSE <<>>]_vars

\* destroy() has nothing left to undo
Destroyed ==
  /\ ~enabled /\ ~isHijacked /\ backup = NoBackup /\ subscribers = <<>>
  /\ globalDate = "Date" /\ LibrariesPristine

(* C27: destroy() from any state returns with the controller Disabled, the      *)
(* original Date and library bindings in place, the hijacker backup discarded   *)
(* and no subscriber left; a destroy() after that changes nothing and notifies  *)
(* no one.                                                                       *)
C27_DestroyLeavesNothing ==
  [][op'.name = "destroy" =>
       /\ err' = "none"
       /\ Destroyed'
       /\ Destroyed => (calls' = <<>> /\ changeCalls' = <<>> /\ currentTime' = currentTime
                        /\ options' = options)]_vars

(* C28: getTimeController returns the controller globalController holds,       *)
(* constructing none, until cleanupTimeControl or initializeTimeControl;        *)
(* initializeTimeControl leaves the previous controller Disabled, the original  *)
(* bindings restored and its subscribers cleared before it constructs the new   *)
(* one, which globalController then holds.                                       *)
C28_OneLiveController ==
  [][/\ (op'.name = "getTimeController" /\ globalController # NoController) =>
          (globalController' = globalController /\ created' = created)
     /\ (op'.name = "initializeTimeControl" /\ globalController # NoController) =>
          LET previous == destroy(World) IN
          /\ previous.err = "none"
          /\ ~previous.enabled /\ ~previous.isHijacked /\ previous.subscribers = <<>>
          /\ previous.globalDate = "Date"
          /\ previous.momentNow = <<>> /\ previous.dayjsGlobal = 0
          /\ err' = "none" => (globalController' = created' /\ created' = created + 1)
     /\ op'.name = "cleanupTimeControl" => globalController' = NoController]_vars

(* C32: shouldEnableTimeControl(env), for each explicit env, returns false for   *)
(* production and true for development and test, without throwing and without   *)
(* changing any state.                                                           *)
C32_PolicyByEnvironment ==
  [][op'.name = "shouldEnableTimeControl" =>
       /\ err' = "none"
       /\ result' = BoolResult(op'.arg.env # "production")
       /\ UNCHANGED <<constructed, currentTime, enabled, options, subscribers, isHijacked,
                      backup, globalDate, libs, momentNow, dayjsGlobal, globalController>>]_vars

C32_Witness ==
  /\ op.name = "shouldEnableTimeControl"
  /\ op.arg.env = "production"
  /\ result = BoolResult(FALSE)
  /\ err = "none"
  /\ constructed
  /\ enabled

(* C33: outside production, enableTimeTravel(startTime) returns with the global *)
(* controller active and its instant equal to startTime, whether it had to make *)
(* the controller or found one, Disabled and at another instant, already there. *)
C33_EnableTimeTravelActivates ==
  [][(/\ op'.name = "enableTimeTravel"
      /\ ~Falsy(op'.arg.startTime)
      /\ globalDate = "Date"
      /\ IF globalController = NoController THEN op'.arg.detected # "production"
         ELSE options.environment # "production") =>
       /\ err' = "none"
       /\ globalController' # NoController
       /\ enabled'
       /\ currentTime' = Resolve(op'.arg.startTime)]_vars

(* C35: whenever setTime, addTime or a helper built on them throws, for any    *)
(* reason, a throwing or missing onTimeChange included, the instant is what it *)
(* was before the call.                                                         *)
C35_MutationsAllOrNothing ==
  [][(op'.name \in TimeOps /\ err' # "none") => currentTime' = currentTime]_vars

(* C39: whatever updateOptions and getTimeController(options) have been given,  *)
(* a partial whose onTimeChange is present but undefined included, the          *)
(* configured onTimeChange is a function, so that setTime and addTime can call   *)
(* it.                                                                           *)
C39_ChangeHandlerCallable == options.onTimeChange # "undefined"

\* how many callbacks are subscribed
SubscriberCount(subs) == Cardinality({i \in 1..Len(subs) : subs[i] # Empty})

\* the time the last invocation of cb during the last operation was given
LastDelivered(log, cb) ==
  log[CHOOSE i \in 1..Len(log) :
        /\ log[i].cb = cb
        /\ \A j \in (i + 1)..Len(log) : log[j].cb # cb].time

(* C34: when the callbacks only return, throw, subscribe and unsubscribe each   *)
(* other, an operation invokes no more callbacks than were subscribed when it   *)
(* started.                                                                     *)
C34_RoundBoundedBySubscribers ==
  [][Len(calls') <= SubscriberCount(subscribers)]_vars

(* C36: once an operation has returned, subscribers that call enable() or       *)
(* disable() from inside a round and the round of the disable() inside          *)
(* destroy() included, the controller is active exactly when the controlled     *)
(* Date is installed as the global Date.                                        *)
C36_ActiveIffInstalled ==
  constructed => (isActive(World) <=> globalDate = "ControlledDate")

(* C37: after a setTime that returned normally, with no subscriber changing the *)
(* Date it was given, the last time delivered to every callback that is still   *)
(* subscribed is the controller's instant, also when a subscriber called        *)
(* setTime from inside its callback.                                            *)
C37_LastDeliveredIsCurrent ==
  [][(/\ op'.name = "setTime"
      /\ err' = "none"
      /\ ~Invoked(calls', "m")) =>
       \A cb \in Callbacks :
         (SetHas(subscribers', cb) /\ Invoked(calls', cb)) =>
           LastDelivered(calls', cb) = currentTime']_vars

(* C38: in the round of a setTime that returned normally, with no subscriber    *)
(* calling back into the controller, every subscriber is given the controller's *)
(* instant, also after an earlier subscriber changed the Date it was given.     *)
C38_EveryoneGivenTheInstant ==
  [][(/\ op'.name = "setTime"
      /\ err' = "none"
      /\ \A cb \in {"r", "e", "d"} : ~Invoked(calls', cb)) =>
       \A i \in 1..Len(calls') : calls'[i].time = currentTime']_vars

C40_BothDisabledPristine ==
  (constructed /\ other.constructed /\ ~enabled /\ ~other.enabled) => globalDate = "Date"

====
